---- MODULE Spec2Model ----
(***************************************************************************)
(* Model of JniConnector (be/src/vec/exec/jni_connector.cpp): the          *)
(* connector that pulls batches from an external JNI scanner into a local  *)
(* block, and the get_hive_type name mapper.                               *)
(***************************************************************************)
EXTENDS Integers, Sequences, FiniteSets, TLC

VARIABLES
    _env,              \* JNIEnv* of the connector: "null" or "valid"
    _jni_scanner_cls,  \* "unset", "valid" or "deleted"
    _jni_scanner_obj,  \* "unset", "valid" or "deleted"
    _methods,          \* the jmethodIDs that have been resolved
    _closed,
    _has_read,
    _scanner_params,   \* configuration map handed to the scanner constructor
    _predicates,       \* address of the push-down predicate buffer, 0 is nullptr
    _predicates_length,
    _column_names,     \* declared columns, in declaration order
    _meta,             \* the slots of the block _meta_ptr points to
    _meta_index,
    block,             \* destination block: column name -> column
    exc,               \* the JNI environment has a pending exception
    scanner,           \* external side: the scanner behind the handle
    proc,              \* "running", "fatal" (LOG(FATAL)), "crashed", "destroyed"
    lastOp,            \* the operation that ran last
    status,            \* its returned Status
    read_rows,         \* the caller's *read_rows after the last operation
    eof,               \* the caller's *eof after the last operation
    written,           \* the last operation wrote *read_rows and *eof
    calls,             \* boundary events of the last operation, in order
    reads,             \* metadata slots read by the last operation, in order
    desc,              \* the TypeDescriptor last given to get_hive_type
    hive_type,         \* the string it returned
    hist               \* history of the run (bookkeeping for the properties):
                       \*   opens, faults, batches: calls of open, injected faults,
                       \*     batches handed out by the scanner
                       \*   opened: an open() has returned OK
                       \*   emitted: rows in the batches handed out
                       \*   sumRead: sum of *read_rows over the calls that returned OK
                       \*   returned: what getNextBatchMeta returned to the last
                       \*     get_nex_block: "none", "zero" (address 0), "empty"
                       \*     (row count 0) or "rows"
                       \*   clean: so far one open without fault, then only valid
                       \*     batches, no fault and no call through an invalid handle
                       \*   relFromClose, scannerCloses: releaseTable and close calls
                       \*     issued by close()
                       \*   closeReturned: a close() has returned
                       \*   handleReleased: a close() that went through a valid
                       \*     scanner handle has returned
                       \*   inits: calls of init; initArg: the mapping given to the
                       \*     last one
                       \*   ctorParams: the entries the last scanner constructor
                       \*     was given

vars == <<_env, _jni_scanner_cls, _jni_scanner_obj, _methods, _closed, _has_read,
          _scanner_params, _predicates, _predicates_length,
          _column_names, _meta, _meta_index, block, exc, scanner,
          proc, lastOp, status, read_rows, eof, written, calls, reads, desc, hive_type,
          hist>>

\* The variables of the connector, and those of the type name mapper
conn == <<_env, _jni_scanner_cls, _jni_scanner_obj, _methods, _closed, _has_read,
          _scanner_params, _predicates, _predicates_length,
          _column_names, _meta, _meta_index, block, exc, scanner,
          proc, status, read_rows, eof, written, calls, reads, hist>>
mapper == <<desc, hive_type>>

----------------------------------------------------------------------------
(* Bounds *)
MaxRows == 1        \* rows per batch: 0..MaxRows
MaxBatches == 2     \* batches a scanner is configured to emit
MaxOpens == 2       \* calls of open() in one run
MaxFields == 2      \* fields of a struct descriptor: 0..MaxFields
MaxFaults == 1      \* injected faults in one run: a boundary call that raises,
                    \* a local frame or an environment that cannot be obtained
MaxStrRows == 3     \* rows a string column is given when decoded on its own
MaxInits == 1       \* calls of init() in one run
MaxRanges == 1      \* column ranges in the mapping given to init()

----------------------------------------------------------------------------
(* Status values *)
OK == [code |-> "OK", msg |-> "", type |-> ""]
InternalError(m, t) == [code |-> "InternalError", msg |-> m, type |-> t]
InvalidArgument(m, t) == [code |-> "InvalidArgument", msg |-> m, type |-> t]

\* RETURN_ERROR_IF_EXC: the Status built from the pending exception, which
\* is cleared when it is reported
JniExceptionStatus == InternalError("jni exception", "")
PendingAfterCheck == FALSE

----------------------------------------------------------------------------
(* Boundary events.  kind "jni" is a call through JNIEnv, "check" is        *)
(* ExceptionOccurred, "decode" is an invocation of _fill_column.  via is    *)
(* the state of the handle the call goes through.                          *)
Ev(k, c, a, r, v) == [kind |-> k, call |-> c, arg |-> a, raises |-> r, via |-> v]
Check == Ev("check", "ExceptionOccurred", 0, FALSE, "valid")
Decode(i) == Ev("decode", "_fill_column", i, FALSE, "valid")

NoRaise == [call |-> "none", arg |-> 0]
R(c, a) == [call |-> c, arg |-> a]

\* The handle a scanner method call goes through
Handle(method) ==
    IF _env = "null" THEN "no_env"
    ELSE IF _jni_scanner_obj # "valid" THEN _jni_scanner_obj
    ELSE IF method \notin _methods THEN "no_method"
    ELSE "valid"

\* A call of a scanner method; only a call that reaches the external side
\* can raise there
Jni(c, a, raise) == Ev("jni", c, a, raise = R(c, a) /\ Handle(c) = "valid", Handle(c))

----------------------------------------------------------------------------
(* Destination columns and declared schemas *)
NumericTypes == {"Int8", "UInt8", "Int16", "UInt16", "Int32", "UInt32",
                 "Int64", "UInt64", "Float32", "Float64"}
DecimalTypes == {"Decimal128", "Decimal128I", "Decimal32", "Decimal64"}
TimeTypes == {"DateV2", "DateTimeV2"}
StringTypes == {"String", "FixedString"}

Column(t, n) == [type |-> t, nullable |-> n, data |-> <<>>, null_map |-> <<>>]

\* The schemas a connector is constructed with: declared names and the
\* destination block holding one (empty) column per name.
Schemas ==
    { [names |-> <<"c0", "c1">>,
       block |-> [c \in {"c0", "c1"} |->
                    IF c = "c0" THEN Column("Int32", TRUE) ELSE Column("String", FALSE)]],
      [names |-> <<"c0", "c1">>,
       block |-> [c \in {"c0", "c1"} |->
                    IF c = "c0" THEN Column("String", TRUE) ELSE Column("Array", TRUE)]],
      [names |-> <<"c0">>,
       block |-> [c \in {"c0"} |-> Column("DateV2", TRUE)]] }

----------------------------------------------------------------------------
(* The batch metadata block: 8-byte slots.  A slot holds a value v (a row   *)
(* count, or an address with 0 the null pointer) and, for an address, the   *)
(* memory mem it points to.                                                 *)
Slot(v, m) == [v |-> v, mem |-> m]

\* Number of data-pointer slots the external side emits for a type
DataSlots(t) == IF t \in StringTypes THEN 2 ELSE 1

\* What the external scanner writes for one column: n rows, null-bitmap
\* pointer zero when zeroPtr, row 1 NULL (and an empty string) when nulls.
ColumnSlots(t, n, zeroPtr, nulls, base) ==
    LET bitmap == [i \in 1..n |-> IF nulls /\ i = 1 THEN 1 ELSE 0]
        nm == Slot(IF zeroPtr THEN 0 ELSE base, IF zeroPtr THEN <<>> ELSE bitmap)
    IN  IF t \in StringTypes
        THEN <<nm,
               Slot(base + 1, [i \in 1..n |-> IF nulls THEN 2 * (i - 1) ELSE 2 * i]),
               Slot(base + 2, [i \in 1..(2 * n) |-> IF i % 2 = 1 THEN "a" ELSE "b"])>>
        ELSE <<nm, Slot(base + 1, [i \in 1..n |-> 10 * i])>>

RECURSIVE BatchSlots(_, _, _, _, _, _)
BatchSlots(names, blk, i, n, zero, nulls) ==
    IF i > Len(names) THEN <<>>
    ELSE ColumnSlots(blk[names[i]].type, n, zero = i, nulls, 10 * i)
         \o BatchSlots(names, blk, i + 1, n, zero, nulls)

\* The batches a scanner for the given schema can hand out: address and slots
Batches(names, blk) ==
    { [addr |-> 1, slots |-> <<Slot(0, <<>>)>> \o BatchSlots(names, blk, 1, 0, 0, FALSE)] }
    \cup { [addr |-> 1, slots |-> <<Slot(n, <<>>)>> \o BatchSlots(names, blk, 1, n, zero, FALSE)] :
             n \in 1..MaxRows, zero \in 0..Len(names) }
    \cup { [addr |-> 1, slots |-> <<Slot(n, <<>>)>> \o BatchSlots(names, blk, 1, n, 0, TRUE)] :
             n \in 1..MaxRows }

RECURSIVE SeqsUpTo(_, _)
SeqsUpTo(S, k) ==
    IF k = 0 THEN { <<>> }
    ELSE SeqsUpTo(S, k - 1) \cup { Append(s, e) : s \in SeqsUpTo(S, k - 1), e \in S }

----------------------------------------------------------------------------
(* Metadata cursor *)
_next_meta(meta, idx) == meta[idx + 1]

(* Column decoders.  A decoder result is the Status, the column afterwards, *)
(* the cursor afterwards.                                                   *)
FillResult(st, col, idx) == [st |-> st, col |-> col, idx |-> idx]

_fill_numeric_column(col, ptr, num_rows) ==
    [col EXCEPT !.data = @ \o SubSeq(ptr.mem, 1, num_rows)]

_fill_decimal_column(col, ptr, num_rows) ==
    [col EXCEPT !.data = @ \o SubSeq(ptr.mem, 1, num_rows)]

_decode_time_column(col, ptr, num_rows) ==
    [col EXCEPT !.data = @ \o [i \in 1..num_rows |-> [packed |-> ptr.mem[i]]]]

\* line 231: a row starts where the row before it ends, the first one at 0
StartOffset_zero(offsets, i) == 0

StartOffset(offsets, i) == IF i = 1 THEN 0 ELSE offsets[i - 1]

\* line 227-228: the offsets pointer and the data pointer are two slots
_fill_string_column_one(col, num_rows, meta, idx) ==
    LET offsets == _next_meta(meta, idx).mem
        data == _next_meta(meta, idx + 1).mem
        start_offset(i) == StartOffset(offsets, i)
        end_offset(i) == offsets[i]
        string_values == [i \in 1..num_rows |->
                            SubSeq(data, start_offset(i) + 1, end_offset(i))]
    IN  FillResult(OK, [col EXCEPT !.data = @ \o string_values], idx + 1)

_fill_string_column(col, num_rows, meta, idx) ==
    LET offsets == _next_meta(meta, idx).mem
        data == _next_meta(meta, idx + 1).mem
        start_offset(i) == StartOffset(offsets, i)
        end_offset(i) == offsets[i]
        string_values == [i \in 1..num_rows |->
                            SubSeq(data, start_offset(i) + 1, end_offset(i))]
    IN  FillResult(OK, [col EXCEPT !.data = @ \o string_values], idx + 2)

\* line 173-176: the zero null-bitmap pointer returns before any other read
UnsupportedInJava_late(col, idx1) ==
    FillResult(InternalError("Unsupported type in java side", col.type), col, idx1 + 1)

UnsupportedInJava(col, idx1) ==
    FillResult(InternalError("Unsupported type in java side", col.type), col, idx1)

\* line 218-221: a logical type outside the switch
UnsupportedInScanner_java(col, idx1) ==
    FillResult(InternalError("Unsupported type in java side", col.type), col, idx1)

UnsupportedInScanner(col, idx1) ==
    FillResult(InvalidArgument("Unsupported type in jni scanner", col.type), col, idx1)

\* line 184-187: the null map is resized by num_rows and the bitmap bytes are
\* copied behind its old contents
AppendNullMap_replace(null_map, ptr, num_rows) == SubSeq(ptr.mem, 1, num_rows)

AppendNullMap(null_map, ptr, num_rows) == null_map \o SubSeq(ptr.mem, 1, num_rows)

_fill_column(col, num_rows, meta, idx) ==
    LET logical_type == col.type
        null_map_ptr == _next_meta(meta, idx)
        idx1 == idx + 1
        filled == IF col.nullable
                  THEN [col EXCEPT !.null_map = AppendNullMap(@, null_map_ptr, num_rows)]
                  ELSE col
    IN  IF null_map_ptr.v = 0
        THEN UnsupportedInJava(col, idx1)
        ELSE IF logical_type \in NumericTypes
        THEN FillResult(OK, _fill_numeric_column(filled, _next_meta(meta, idx1), num_rows),
                        idx1 + 1)
        ELSE IF logical_type \in DecimalTypes
        THEN FillResult(OK, _fill_decimal_column(filled, _next_meta(meta, idx1), num_rows),
                        idx1 + 1)
        ELSE IF logical_type \in TimeTypes
        THEN FillResult(OK, _decode_time_column(filled, _next_meta(meta, idx1), num_rows),
                        idx1 + 1)
        ELSE IF logical_type \in StringTypes
        THEN _fill_string_column(filled, num_rows, meta, idx1)
        ELSE UnsupportedInScanner(filled, idx1)

----------------------------------------------------------------------------
(* External side: what the scanner behind the handle does on each call *)
FreshScanner == [held |-> FALSE, relTable |-> 0, relCols |-> <<>>, closed |-> 0]

ScannerNextBatch(sc) == [sc EXCEPT !.held = TRUE, !.relTable = 0, !.relCols = <<>>]
ScannerReleaseColumn(sc, i) == [sc EXCEPT !.relCols = Append(@, i)]
ScannerReleaseTable(sc) == [sc EXCEPT !.held = FALSE, !.relTable = @ + 1]
ScannerClose(sc) == [sc EXCEPT !.closed = @ + 1]

\* A call reaches the scanner only through a valid handle and only when it
\* does not raise
Reaches(ev) == ev.via = "valid" /\ ~ev.raises

\* End of stream: address 0 and no block
NoBatch == [addr |-> 0, slots |-> <<>>]

\* A batch every column of which the decoder supports, with rows in it
ValidBatch(b) ==
    /\ b.addr # 0
    /\ b.slots[1].v > 0
    /\ \A k \in 2..Len(b.slots) : b.slots[k].v # 0
    /\ \A c \in DOMAIN block :
         block[c].type \in NumericTypes \cup DecimalTypes \cup TimeTypes \cup StringTypes

----------------------------------------------------------------------------
(* What a call through an invalid handle does is undefined: the process     *)
(* either dies at the call, or goes on with the call not having reached a   *)
(* scanner (getNextBatchMeta then returns 0).                               *)
UBOutcomes == {"crash", "proceed"}

HasInvalid(tr) == \E k \in 1..Len(tr) : tr[k].via # "valid"
FirstInvalid(tr) == CHOOSE k \in 1..Len(tr) :
                        /\ tr[k].via # "valid"
                        /\ \A j \in 1..(k - 1) : tr[j].via = "valid"
Crashes(tr, ub) == ub = "crash" /\ HasInvalid(tr)
UBChoice(tr) == IF HasInvalid(tr) THEN UBOutcomes ELSE {"proceed"}

None == [code |-> "none", msg |-> "", type |-> ""]

Crash(op, tr) ==
    /\ proc' = "crashed"
    /\ lastOp' = op
    /\ status' = None
    /\ calls' = SubSeq(tr, 1, FirstInvalid(tr))
    /\ written' = FALSE /\ reads' = <<>> /\ read_rows' = 0 /\ eof' = FALSE
    /\ hist' = [hist EXCEPT !.clean = FALSE, !.returned = "none"]
    /\ UNCHANGED <<_env, _jni_scanner_cls, _jni_scanner_obj, _methods, _closed, _has_read,
                   _scanner_params, _predicates, _predicates_length,
                   _column_names, _meta, _meta_index, block, exc,
                   scanner, mapper>>

----------------------------------------------------------------------------
(* _fill_block: the state after columns i.. of the batch have been handled  *)
FillBlockResult(st, blk, idx, tr, sc) ==
    [st |-> st, block |-> blk, idx |-> idx, calls |-> tr, scanner |-> sc]

\* line 163-164: release column i, then check
ReleaseColumn_next(i, raise) == <<Jni("releaseColumn", i + 1, raise), Check>>

ReleaseColumn(i, raise) == <<Jni("releaseColumn", i, raise), Check>>

RECURSIVE _fill_block(_, _, _, _, _, _, _, _)
_fill_block(i, blk, num_rows, meta, idx, tr, sc, raise) ==
    IF ~(i < Len(_column_names)) THEN FillBlockResult(OK, blk, idx, tr, sc)
    ELSE LET name == _column_names[i + 1]
             tr1 == Append(tr, Decode(i))
             \* r: what _fill_column returned; rel: the release call and its check
             Decoded(r, rel) ==
                 LET blk1 == [blk EXCEPT ![name] = r.col]
                     tr2 == tr1 \o rel
                 IN  IF r.st # OK THEN FillBlockResult(r.st, blk1, r.idx, tr1, sc)
                     ELSE IF rel[1].raises
                     THEN FillBlockResult(JniExceptionStatus, blk1, r.idx, tr2, sc)
                     ELSE _fill_block(i + 1, blk1, num_rows, meta, r.idx, tr2,
                                      IF Reaches(rel[1]) THEN ScannerReleaseColumn(sc, i)
                                      ELSE sc,
                                      raise)
         IN  Decoded(_fill_column(blk[name], num_rows, meta, idx), ReleaseColumn(i, raise))

----------------------------------------------------------------------------
(* get_nex_block: the connector after the call, given whether the local     *)
(* frame could be pushed, which boundary call raises and what the scanner   *)
(* hands out.                                                               *)
\* line 83: a block of no rows ends the stream
NoRows_never(num_rows) == FALSE

NoRows(num_rows) == num_rows = 0

\* line 93: _has_read += num_rows
Accumulate_none(total, num_rows) == total

Accumulate(total, num_rows) == total + num_rows

\* line 88: the calls issued when _fill_block has failed
FailedBlockCalls_release(tr, raise) == tr \o <<Jni("releaseTable", 0, raise), Check>>

FailedBlockCalls(tr, raise) == tr

get_nex_block(pushOk, raise, batch) ==
    LET getNext == Jni("getNextBatchMeta", 0, raise)
        relTable == Jni("releaseTable", 0, raise)
        tr0 == <<getNext, Check>>
        \* the caller passes fresh outputs: size_t read_rows = 0; bool eof = false
        base == [st |-> OK, rr |-> 0, eof |-> FALSE, written |-> FALSE,
                 calls |-> tr0, block |-> block, meta |-> _meta, idx |-> _meta_index,
                 has_read |-> _has_read, scanner |-> scanner, reads |-> 0]
    IN  IF ~pushOk
        THEN [base EXCEPT !.st = InternalError("push local frame", ""), !.calls = <<>>]
        ELSE IF exc \/ getNext.raises
        THEN [base EXCEPT !.st = JniExceptionStatus]
        ELSE IF batch.addr = 0 \/ ~Reaches(getNext)
        THEN [base EXCEPT !.rr = 0, !.eof = TRUE, !.written = TRUE]
        ELSE
          LET sc1 == ScannerNextBatch(scanner)
              meta == batch.slots
              num_rows == _next_meta(meta, 0).v
              withMeta == [base EXCEPT !.meta = meta, !.idx = 1, !.reads = 1,
                                       !.scanner = sc1]
          IN  IF NoRows(num_rows)
              THEN [withMeta EXCEPT !.rr = 0, !.eof = TRUE, !.written = TRUE]
              ELSE
                \* fb: what _fill_block returned
                LET Filled(fb) ==
                      LET filled == [withMeta EXCEPT !.block = fb.block, !.idx = fb.idx,
                                                     !.reads = fb.idx, !.calls = fb.calls,
                                                     !.scanner = fb.scanner]
                          tr3 == fb.calls \o <<relTable, Check>>
                          wrote == [filled EXCEPT !.rr = num_rows, !.eof = FALSE,
                                                  !.written = TRUE, !.calls = tr3]
                      IN  IF fb.st # OK
                          THEN [filled EXCEPT !.st = fb.st,
                                              !.calls = FailedBlockCalls(fb.calls, raise)]
                          ELSE IF relTable.raises
                          THEN [wrote EXCEPT !.st = JniExceptionStatus]
                          ELSE [wrote EXCEPT !.scanner = IF Reaches(relTable)
                                                           THEN ScannerReleaseTable(fb.scanner)
                                                           ELSE fb.scanner,
                                             !.has_read = Accumulate(@, num_rows)]
                IN  Filled(_fill_block(0, block, num_rows, meta, 1, tr0, sc1, raise))

Raised(tr) == \E k \in 1..Len(tr) : tr[k].raises

\* The values an input is drawn from: the fault-free ones, and the faulty
\* ones while the run may still inject a fault
Faulty(good, bad) == IF hist.faults < MaxFaults THEN good \cup bad ELSE good

RaiseGnb == {NoRaise, R("getNextBatchMeta", 0), R("releaseTable", 0)}
            \cup { R("releaseColumn", i) : i \in 0..(Len(_column_names) - 1) }

\* What the scanner may hand out on the next getNextBatchMeta
Offered == {NoBatch} \cup (IF hist.batches < MaxBatches
                           THEN Batches(_column_names, block) ELSE {})

\* What getNextBatchMeta returns to the call: nothing when it is not reached
\* or raises, else address 0, a block of 0 rows, or a block with rows
Returned(pushOk, raise, batch) ==
    IF ~pushOk \/ exc \/ Jni("getNextBatchMeta", 0, raise).raises THEN "none"
    ELSE IF batch.addr = 0 \/ Handle("getNextBatchMeta") # "valid" THEN "zero"
    ELSE IF batch.slots[1].v = 0 THEN "empty"
    ELSE "rows"
Handed(pushOk, raise, batch) == Returned(pushOk, raise, batch) \in {"empty", "rows"}

CallGetNexBlock ==
    /\ proc = "running"
    /\ \E pushOk \in Faulty({TRUE}, {FALSE}), raise \in Faulty({NoRaise}, RaiseGnb),
          batch \in Offered :
         \E g \in {get_nex_block(pushOk, raise, batch)} :
             \E ub \in UBChoice(g.calls) :
             IF Crashes(g.calls, ub) THEN Crash("get_nex_block", g.calls)
             ELSE
               /\ lastOp' = "get_nex_block"
               /\ status' = g.st
               /\ read_rows' = g.rr /\ eof' = g.eof /\ written' = g.written
               /\ calls' = g.calls
               /\ reads' = [k \in 1..g.reads |-> k]
               /\ block' = g.block
               /\ _meta' = g.meta /\ _meta_index' = g.idx
               /\ _has_read' = g.has_read
               /\ scanner' = g.scanner
               /\ exc' = PendingAfterCheck
               /\ hist' = [hist EXCEPT
                     !.faults = IF ~pushOk \/ Raised(g.calls) THEN @ + 1 ELSE @,
                     !.batches = IF Handed(pushOk, raise, batch) THEN @ + 1 ELSE @,
                     !.emitted = IF Handed(pushOk, raise, batch)
                                 THEN @ + batch.slots[1].v ELSE @,
                     !.sumRead = IF g.st = OK THEN @ + g.rr ELSE @,
                     !.returned = Returned(pushOk, raise, batch),
                     !.clean = /\ @ /\ pushOk /\ ~Raised(g.calls) /\ ~HasInvalid(g.calls)
                               /\ (batch.addr = 0 \/ ValidBatch(batch))]
               /\ UNCHANGED <<_env, _jni_scanner_cls, _jni_scanner_obj, _methods, _closed,
                              _scanner_params, _predicates, _predicates_length,
                              _column_names, proc, mapper>>

----------------------------------------------------------------------------
(* close *)
EnvCall(c, a, raise) ==
    Ev("jni", c, a, raise = R(c, a), IF _env = "null" THEN "no_env" ELSE "valid")

\* line 98
CloseNeeded_always == TRUE

CloseNeeded == ~_closed

\* line 106-110: LOG(FATAL) when an exception is pending after the calls
CloseFatal_never(tr) == FALSE

CloseFatal(tr) == exc \/ Raised(tr)

\* line 101-102: the table is released, then the scanner is closed
CloseCalls_swapped(raise) == <<Jni("close", 0, raise), Jni("releaseTable", 0, raise)>>

CloseCalls(raise) == <<Jni("releaseTable", 0, raise), Jni("close", 0, raise)>>

close(raise) ==
    IF CloseNeeded
    THEN LET relTable == CloseCalls(raise)[1]
             closeCall == CloseCalls(raise)[2]
             tr == <<relTable, closeCall, EnvCall("DeleteLocalRef", 0, raise),
                     EnvCall("DeleteLocalRef", 1, raise), Check>>
             sc1 == IF Reaches(relTable) THEN ScannerReleaseTable(scanner) ELSE scanner
             \* close is called with the exception of releaseTable still pending
             sc2 == IF Reaches(closeCall) /\ ~relTable.raises THEN ScannerClose(sc1)
                    ELSE sc1
         IN  [st |-> OK,
              calls |-> tr,
              obj |-> "deleted", cls |-> "deleted", closed |-> TRUE,
              scanner |-> sc2,
              fatal |-> CloseFatal(tr)]
    ELSE [st |-> OK, calls |-> <<>>, obj |-> _jni_scanner_obj, cls |-> _jni_scanner_cls,
          closed |-> _closed, scanner |-> scanner, fatal |-> FALSE]

RaiseClose == {NoRaise, R("releaseTable", 0), R("close", 0)}

Count(tr, c) == Cardinality({k \in 1..Len(tr) : tr[k].kind = "jni" /\ tr[k].call = c})

\* close() called from op; proc becomes after(its Status) when it returns
CloseStep(op, after(_)) ==
    \E raise \in Faulty({NoRaise}, RaiseClose) :
        \E c \in {close(raise)} :
            \E ub \in UBChoice(c.calls) :
            IF Crashes(c.calls, ub) THEN Crash(op, c.calls)
            ELSE
              /\ lastOp' = op
              /\ calls' = c.calls
              /\ _jni_scanner_obj' = c.obj /\ _jni_scanner_cls' = c.cls
              /\ _closed' = c.closed
              /\ scanner' = c.scanner
              /\ exc' = c.fatal
              /\ status' = IF c.fatal THEN None ELSE c.st
              /\ proc' = IF c.fatal THEN "fatal" ELSE after(c.st)
              /\ written' = FALSE /\ reads' = <<>> /\ read_rows' = 0 /\ eof' = FALSE
              /\ hist' = [hist EXCEPT
                    !.faults = IF Raised(c.calls) THEN @ + 1 ELSE @,
                    !.relFromClose = @ + Count(c.calls, "releaseTable"),
                    !.scannerCloses = @ + Count(c.calls, "close"),
                    !.closeReturned = @ \/ ~c.fatal,
                    !.handleReleased = @ \/ (~c.fatal /\ c.calls # <<>>
                                             /\ c.calls[1].via = "valid"),
                    !.clean = @ /\ ~HasInvalid(c.calls) /\ ~Raised(c.calls)]
              /\ UNCHANGED <<_env, _methods, _has_read, _scanner_params, _predicates, _predicates_length,
                             _column_names,
                             _meta, _meta_index, block, mapper>>

StillRunning(st) == "running"
CallClose ==
    /\ proc = "running"
    /\ CloseStep("close", StillRunning)

\* ~JniConnector: close(), LOG(FATAL) when it fails, then the object is gone
AfterDestructor(st) == IF st # OK THEN "fatal" ELSE "destroyed"
CallDestructor ==
    /\ proc = "running"
    /\ CloseStep("~JniConnector", AfterDestructor)

----------------------------------------------------------------------------
(* open and _init_jni_scanner *)
E(c, a, raise) == Ev("jni", c, a, raise = R(c, a), "valid")

\* The jmethodIDs _init_jni_scanner resolves, in order (lines 142-151)
MethodOrder == <<"open", "getNextBatchMeta", "close", "releaseColumn", "releaseTable">>

\* lines 129-135: the calls that put entry j.. of the n entries of
\* _scanner_params into the HashMap
RECURSIVE PutParams(_, _, _)
PutParams(j, n, raise) ==
    IF ~(j < n) THEN <<>>
    ELSE <<E("NewStringUTF", 2 * j, raise), E("NewStringUTF", 2 * j + 1, raise),
           E("CallObjectMethod", j, raise),
           E("DeleteLocalRef", IF j = 0 THEN 0 ELSE 2 * j + 2, raise),
           E("DeleteLocalRef", IF j = 0 THEN 1 ELSE 2 * j + 3, raise)>>
         \o PutParams(j + 1, n, raise)

\* The boundary calls of _init_jni_scanner between two exception checks:
\* segment 1 is lines 117-119, 2 is 122-128, 3 is 129-140, 4..8 are 142-151
InitSegment(k, raise) ==
    IF k = 1 THEN <<E("GetMethodID", 0, raise), Check>>
    ELSE IF k = 2
    THEN <<E("FindClass", 0, raise), E("GetMethodID", 1, raise),
           E("NewObject", 0, raise), E("GetMethodID", 2, raise), Check>>
    ELSE IF k = 3
    THEN PutParams(0, Cardinality(_scanner_params), raise)
         \o <<E("DeleteLocalRef", 2, raise), E("NewObject", 1, raise),
              E("DeleteLocalRef", 3, raise), Check>>
    ELSE <<E("GetMethodID", k - 1, raise), Check>>

NumInitSegments == 8

\* The segments run until the first check that finds an exception
RECURSIVE InitTrace(_, _, _)
InitTrace(k, raise, pending) ==
    IF k > NumInitSegments THEN <<>>
    ELSE IF pending \/ Raised(InitSegment(k, raise)) THEN InitSegment(k, raise)
    ELSE InitSegment(k, raise) \o InitTrace(k + 1, raise, FALSE)

\* Number of segments run
RECURSIVE InitReached(_, _, _)
InitReached(k, raise, pending) ==
    IF k > NumInitSegments THEN NumInitSegments
    ELSE IF pending \/ Raised(InitSegment(k, raise)) THEN k
    ELSE InitReached(k + 1, raise, FALSE)

_init_jni_scanner(clsOk, raise, pendingWorks) ==
    LET \* tr: the calls issued; last: the last segment run
        Ran(tr, last) ==
            LET failed == exc \/ Raised(tr)
                \* line 137: NewObject raising returns NULL; NewObject called
                \* while an earlier exception is pending returns NULL or the object
                newObj == IF raise = R("NewObject", 1) THEN "unset"
                          ELSE IF Raised(InitSegment(3, raise)) /\ ~pendingWorks
                          THEN "unset"
                          ELSE "valid"
                resolved == { MethodOrder[j] :
                                j \in 1..(IF failed THEN last - 4 ELSE last - 3) }
                nulled == IF failed /\ last >= 4 THEN { MethodOrder[last - 3] } ELSE {}
            IN  [st |-> IF failed THEN JniExceptionStatus ELSE OK,
                 calls |-> tr,
                 cls |-> "valid",
                 obj |-> IF last >= 3 THEN newObj ELSE _jni_scanner_obj,
                 methods |-> (_methods \ nulled) \cup resolved,
                 constructed |-> last >= 3 /\ newObj = "valid"]
    IN  IF ~clsOk
        THEN [st |-> InternalError("GetGlobalClassRef", ""), calls |-> <<>>,
              cls |-> _jni_scanner_cls, obj |-> _jni_scanner_obj, methods |-> _methods,
              constructed |-> FALSE]
        ELSE Ran(InitTrace(1, raise, exc), InitReached(1, raise, exc))

open(envOutcome, clsOk, raise, pendingWorks) ==
    LET unchanged == [st |-> OK, env |-> _env, calls |-> <<>>, cls |-> _jni_scanner_cls,
                      obj |-> _jni_scanner_obj, methods |-> _methods,
                      constructed |-> FALSE]
        \* i: what _init_jni_scanner returned
        Inited(i) ==
            LET inited == [unchanged EXCEPT !.env = "valid", !.st = i.st,
                                            !.calls = i.calls, !.cls = i.cls,
                                            !.obj = i.obj, !.methods = i.methods,
                                            !.constructed = i.constructed]
            IN  IF i.st # OK THEN inited
                ELSE [inited EXCEPT
                        !.calls = @ \o <<E("open", 0, raise), Check>>,
                        !.st = IF raise = R("open", 0) THEN JniExceptionStatus ELSE OK]
    IN  IF envOutcome = "error"
        THEN [unchanged EXCEPT !.st = InternalError("GetJNIEnv", "")]
        ELSE IF envOutcome = "null"
        THEN [unchanged EXCEPT !.env = "null",
                               !.st = InternalError("Failed to get/create JVM", "")]
        ELSE Inited(_init_jni_scanner(clsOk, raise, pendingWorks))

\* The GetMethodID calls an exception is injected into: the constructor
\* lookup, HashMap.put, and the lookups of close and of releaseTable
RaisingLookups == {0, 2, 5, 7}

RaiseOpen ==
    {NoRaise, R("FindClass", 0), R("NewObject", 0), R("NewObject", 1), R("open", 0)}
    \cup { R("GetMethodID", k) : k \in RaisingLookups }
    \cup (IF _scanner_params = {} THEN {}
          ELSE {R("NewStringUTF", 0), R("NewStringUTF", 1), R("CallObjectMethod", 0)})

CallOpen ==
    /\ proc = "running"
    /\ hist.opens < MaxOpens
    /\ \E envOutcome \in Faulty({"ok"}, {"error", "null"}),
          clsOk \in Faulty({TRUE}, {FALSE}),
          raise \in Faulty({NoRaise}, RaiseOpen), pendingWorks \in BOOLEAN :
         \E o \in {open(envOutcome, clsOk, raise, pendingWorks)} :
             /\ lastOp' = "open"
             /\ status' = o.st
             /\ calls' = o.calls
             /\ _env' = o.env
             /\ _jni_scanner_cls' = o.cls /\ _jni_scanner_obj' = o.obj
             /\ _methods' = o.methods
             /\ scanner' = IF o.constructed THEN FreshScanner ELSE scanner
             /\ exc' = PendingAfterCheck
             /\ written' = FALSE /\ reads' = <<>> /\ read_rows' = 0 /\ eof' = FALSE
             /\ hist' = [hist EXCEPT
                   !.opens = @ + 1,
                   !.faults = IF envOutcome # "ok" \/ ~clsOk \/ Raised(o.calls)
                              THEN @ + 1 ELSE @,
                   !.opened = @ \/ o.st = OK,
                   !.ctorParams = IF o.constructed THEN _scanner_params ELSE @,
                   !.clean = /\ @ /\ hist.opens = 0 /\ ~_closed
                             /\ envOutcome = "ok" /\ clsOk /\ ~Raised(o.calls)]
             /\ UNCHANGED <<_closed, _has_read, _scanner_params, _predicates, _predicates_length,
                            _column_names, _meta,
                            _meta_index, block, proc, mapper>>

----------------------------------------------------------------------------
(* get_hive_type *)
TypeDescriptor(t, len, p, sc, ch, names) ==
    [type |-> t, len |-> len, precision |-> p, scale |-> sc,
     children |-> ch, field_names |-> names]

Scalar(t) == TypeDescriptor(t, -1, -1, -1, <<>>, <<>>)
WithLen(t, len) == TypeDescriptor(t, len, -1, -1, <<>>, <<>>)
Decimal(t, p, sc) == TypeDescriptor(t, -1, p, sc, <<>>, <<>>)
ArrayOf(c) == TypeDescriptor("TYPE_ARRAY", -1, -1, -1, <<c>>, <<>>)
MapOf(k, v) == TypeDescriptor("TYPE_MAP", -1, -1, -1, <<k, v>>, <<>>)
StructOf(ch) ==
    TypeDescriptor("TYPE_STRUCT", -1, -1, -1, ch, [i \in 1..Len(ch) |-> <<"a", "b", "c">>[i]])

\* DecimalV2Value::PRECISION and DecimalV2Value::SCALE
DecimalV2Precision == 27
DecimalV2Scale == 9

\* operator<< of an int into the stream: its decimal digits
Digits == <<"0", "1", "2", "3", "4", "5", "6", "7", "8", "9">>
RECURSIVE ToDecimal(_)
ToDecimal(n) ==
    IF n < 0 THEN "-" \o ToDecimal(0 - n)
    ELSE IF n < 10 THEN Digits[n + 1]
    ELSE ToDecimal(n \div 10) \o Digits[(n % 10) + 1]

\* line 311: a comma before every field but the first
NeedsComma_always(i) == TRUE

NeedsComma(i) == i # 0

RECURSIVE get_hive_type(_)
RECURSIVE StructFields(_, _, _)

\* lines 310-315: the loop over the fields of a struct, from field i
StructFields(d, i, buffer) ==
    IF ~(i < Len(d.children)) THEN buffer
    ELSE StructFields(d, i + 1,
            (IF NeedsComma(i) THEN buffer \o "," ELSE buffer)
                \o d.field_names[i + 1] \o ":" \o get_hive_type(d.children[i + 1]))

get_hive_type(d) ==
    CASE d.type = "TYPE_BOOLEAN" -> "boolean"
      [] d.type = "TYPE_TINYINT" -> "tinyint"
      [] d.type = "TYPE_SMALLINT" -> "smallint"
      [] d.type = "TYPE_INT" -> "int"
      [] d.type = "TYPE_BIGINT" -> "bigint"
      [] d.type = "TYPE_FLOAT" -> "float"
      [] d.type = "TYPE_DOUBLE" -> "double"
      [] d.type = "TYPE_VARCHAR" -> "varchar(" \o ToDecimal(d.len) \o ")"
      [] d.type \in {"TYPE_DATE", "TYPE_DATEV2"} -> "date"
      [] d.type \in {"TYPE_DATETIME", "TYPE_DATETIMEV2", "TYPE_TIME", "TYPE_TIMEV2"}
           -> "timestamp"
      [] d.type = "TYPE_BINARY" -> "binary"
      [] d.type = "TYPE_CHAR" -> "char(" \o ToDecimal(d.len) \o ")"
      [] d.type = "TYPE_STRING" -> "string"
      [] d.type = "TYPE_DECIMALV2"
           -> "decimalv2(" \o ToDecimal(DecimalV2Precision) \o ","
                \o ToDecimal(DecimalV2Scale) \o ")"
      [] d.type = "TYPE_DECIMAL32"
           -> "decimal32(" \o ToDecimal(d.precision) \o "," \o ToDecimal(d.scale) \o ")"
      [] d.type = "TYPE_DECIMAL64"
           -> "decimal64(" \o ToDecimal(d.precision) \o "," \o ToDecimal(d.scale) \o ")"
      [] d.type = "TYPE_DECIMAL128I"
           -> "decimal128(" \o ToDecimal(d.precision) \o "," \o ToDecimal(d.scale) \o ")"
      [] d.type = "TYPE_STRUCT" -> StructFields(d, 0, "struct<") \o ">"
      [] d.type = "TYPE_ARRAY" -> "array<" \o get_hive_type(d.children[1]) \o ">"
      [] d.type = "TYPE_MAP"
           -> "map<" \o get_hive_type(d.children[1]) \o ","
                \o get_hive_type(d.children[2]) \o ">"
      [] OTHER -> "unsupported"

\* The descriptors get_hive_type is applied to
PlainTypes == {"TYPE_BOOLEAN", "TYPE_TINYINT", "TYPE_SMALLINT", "TYPE_INT", "TYPE_BIGINT",
               "TYPE_FLOAT", "TYPE_DOUBLE", "TYPE_DATE", "TYPE_DATEV2", "TYPE_DATETIME",
               "TYPE_DATETIMEV2", "TYPE_TIME", "TYPE_TIMEV2", "TYPE_BINARY",
               "TYPE_STRING", "TYPE_DECIMALV2"}
UnrecognizedTypes == {"INVALID_TYPE", "TYPE_NULL", "TYPE_LARGEINT", "TYPE_HLL"}
CompositeTypes == {"TYPE_STRUCT", "TYPE_ARRAY", "TYPE_MAP"}

ScalarDescs ==
    { Scalar(t) : t \in PlainTypes \cup UnrecognizedTypes }
    \cup { WithLen(t, len) : t \in {"TYPE_VARCHAR", "TYPE_CHAR"}, len \in {1, 10, 255} }
    \cup { Decimal(t, 5, 2) : t \in {"TYPE_DECIMAL32", "TYPE_DECIMAL64", "TYPE_DECIMAL128I"} }
    \cup { Decimal("TYPE_DECIMAL128I", 38, 10) }

Composites(children) ==
    { ArrayOf(c) : c \in children }
    \cup { MapOf(k, v) : k \in children, v \in children }
    \cup { StructOf(ch) : ch \in SeqsUpTo(children, MaxFields) }

LeafDescs == {Scalar("TYPE_INT"), Scalar("TYPE_STRING"), WithLen("TYPE_VARCHAR", 10),
              Decimal("TYPE_DECIMAL32", 5, 2), Scalar("TYPE_LARGEINT")}
NestedDescs == {MapOf(Scalar("TYPE_STRING"), Scalar("TYPE_INT")),
                ArrayOf(Scalar("TYPE_INT")),
                StructOf(<<Scalar("TYPE_INT")>>)}

ArrayOfMapStringInt == ArrayOf(MapOf(Scalar("TYPE_STRING"), Scalar("TYPE_INT")))
DeepDescs == {StructOf(<<Scalar("TYPE_INT"), ArrayOfMapStringInt>>)}

Descs == ScalarDescs \cup Composites(LeafDescs \cup NestedDescs) \cup DeepDescs

CallGetHiveType ==
    /\ \E d \in Descs :
         /\ desc' = d
         /\ hive_type' = get_hive_type(d)
    /\ lastOp' = "get_hive_type"
    /\ UNCHANGED conn

----------------------------------------------------------------------------
(* init and _generate_predicates *)
\* Where the serializer allocates the predicate buffer
PredicatesAddress == 4096

\* Bytes one column range serializes to: none, or one entry
RangeSizes == {0, 8}

\* The mappings init is given: absent (nullptr), or a sequence of ranges
RangeMappings ==
    { [present |-> FALSE, ranges |-> <<>>] }
    \cup { [present |-> TRUE, ranges |-> r] : r \in SeqsUpTo(RangeSizes, MaxRanges) }

\* The buffer after one range of the given serialized size is appended
_parse_value_range(pred, size) ==
    [ptr |-> IF size > 0 /\ pred.ptr = 0 THEN PredicatesAddress ELSE pred.ptr,
     len |-> pred.len + size]

RECURSIVE PredicateLoop(_, _, _)
PredicateLoop(ranges, i, pred) ==
    IF i > Len(ranges) THEN pred
    ELSE PredicateLoop(ranges, i + 1, _parse_value_range(pred, ranges[i]))

_generate_predicates(colname_to_value_range, pred) ==
    IF ~colname_to_value_range.present THEN pred
    ELSE PredicateLoop(colname_to_value_range.ranges, 1, pred)

\* line 59
HasPredicates_always(len, ptr) == TRUE

HasPredicates(len, ptr) == len # 0 /\ ptr # 0

\* std::unordered_map::emplace: no effect when the key is present
emplace(params, k, v) ==
    IF \E e \in params : e.key = k THEN params
    ELSE params \cup {[key |-> k, value |-> v]}

init(colname_to_value_range) ==
    LET Staged(pred) ==
            [st |-> OK, ptr |-> pred.ptr, len |-> pred.len,
             params |-> IF HasPredicates(pred.len, pred.ptr)
                        THEN emplace(_scanner_params, "push_down_predicates",
                                     ToDecimal(pred.ptr))
                        ELSE _scanner_params]
    IN  Staged(_generate_predicates(colname_to_value_range,
                                    [ptr |-> _predicates, len |-> _predicates_length]))

CallInit ==
    /\ proc = "running"
    /\ hist.inits < MaxInits
    /\ \E arg \in RangeMappings :
         \E i \in {init(arg)} :
             /\ lastOp' = "init"
             /\ status' = i.st
             /\ _scanner_params' = i.params
             /\ _predicates' = i.ptr /\ _predicates_length' = i.len
             /\ calls' = <<>>
             /\ written' = FALSE /\ reads' = <<>> /\ read_rows' = 0 /\ eof' = FALSE
             /\ hist' = [hist EXCEPT !.inits = @ + 1, !.initArg = arg]
    /\ UNCHANGED <<_env, _jni_scanner_cls, _jni_scanner_obj, _methods, _closed, _has_read,
                   _column_names, _meta, _meta_index, block, exc, scanner, proc, mapper>>

----------------------------------------------------------------------------
Init ==
    /\ \E s \in Schemas : _column_names = s.names /\ block = s.block
    /\ _scanner_params = {[key |-> "table", value |-> "t"]}
    /\ _predicates = 0 /\ _predicates_length = 0
    /\ _env = "null"
    /\ _jni_scanner_cls = "unset" /\ _jni_scanner_obj = "unset" /\ _methods = {}
    /\ _closed = FALSE
    /\ _has_read = 0
    /\ _meta = <<>> /\ _meta_index = 0
    /\ exc = FALSE
    /\ scanner = FreshScanner
    /\ proc = "running"
    /\ lastOp = "constructor"
    /\ status = OK
    /\ read_rows = 0 /\ eof = FALSE /\ written = FALSE
    /\ calls = <<>> /\ reads = <<>>
    /\ desc = Scalar("INVALID_TYPE") /\ hive_type = ""
    /\ hist = [opens |-> 0, faults |-> 0, opened |-> FALSE, batches |-> 0, emitted |-> 0,
               sumRead |-> 0, returned |-> "none", clean |-> TRUE,
               relFromClose |-> 0, scannerCloses |-> 0, closeReturned |-> FALSE,
               handleReleased |-> FALSE,
               inits |-> 0, initArg |-> [present |-> FALSE, ranges |-> <<>>],
               ctorParams |-> {}]

Next == CallOpen \/ CallGetNexBlock \/ CallClose \/ CallDestructor

Spec == Init /\ [][Next]_vars

\* The type name mapper alone: get_hive_type applied to descriptors
NextHive == CallGetHiveType

SpecHive == Init /\ [][NextHive]_vars

\* _fill_string_column alone: the string column c0 decoded from offsets over
\* a byte buffer
StrBuffer == <<"a", "b", "c", "x", "y", "z", "1">>

RECURSIVE EndOffsets(_)
EndOffsets(n) ==
    IF n = 0 THEN { <<>> }
    ELSE { Append(o, e) : o \in EndOffsets(n - 1), e \in 0..Len(StrBuffer) }

\* Cumulative end offsets: they do not decrease
Cumulative(o) == \A i \in 2..Len(o) : o[i - 1] <= o[i]

CallFillStringColumn ==
    /\ block[_column_names[1]].type \in StringTypes
    /\ \E num_rows \in 1..MaxStrRows :
         /\ Len(block[_column_names[1]].data) + num_rows <= MaxStrRows
         /\ \E offsets \in { o \in EndOffsets(num_rows) : Cumulative(o) } :
              \E meta \in { <<Slot(1, offsets), Slot(2, StrBuffer)>> } :
              \E r \in { _fill_string_column(block[_column_names[1]], num_rows, meta, 0) } :
                 /\ block' = [block EXCEPT ![_column_names[1]] = r.col]
                 /\ status' = r.st
                 /\ _meta' = meta
                 /\ _meta_index' = r.idx
                 /\ reads' = [k \in 1..r.idx |-> k]
    /\ lastOp' = "_fill_string_column"
    /\ UNCHANGED <<_env, _jni_scanner_cls, _jni_scanner_obj, _methods, _closed, _has_read,
                   _scanner_params, _predicates, _predicates_length,
                   _column_names, exc, scanner, proc, read_rows, eof,
                   written, calls, hist, mapper>>

NextString == CallFillStringColumn

SpecString == Init /\ [][NextString]_vars

\* The connector being set up: init and open
NextInit == CallInit \/ CallOpen

SpecInit == Init /\ [][NextInit]_vars

\* The caller keeps calling get_nex_block
SpecRepeat == Spec /\ WF_vars(CallGetNexBlock)

----------------------------------------------------------------------------
(* Properties *)
CloseOps == {"close", "~JniConnector"}
AllMethods == {MethodOrder[j] : j \in 1..Len(MethodOrder)}

\* The connector is in the Opened state: a scanner handle with every method
\* resolved, not closed
Opened ==
    /\ _env = "valid" /\ _jni_scanner_obj = "valid" /\ _methods = AllMethods
    /\ ~_closed

\* The boundary calls and decoder invocations of a trace, without the checks
IsCheck(e) == e.kind = "check"
NotCheck(e) == ~IsCheck(e)
Strip(tr) == LET t == SelectSeq(tr, NotCheck)
             IN  [k \in 1..Len(t) |-> <<t[k].call, t[k].arg>>]

RECURSIVE ColumnOrder(_, _)
ColumnOrder(i, n) ==
    IF i >= n THEN <<>>
    ELSE <<<<"_fill_column", i>>, <<"releaseColumn", i>>>> \o ColumnOrder(i + 1, n)

\* The order of one successful get_nex_block over n declared columns
ExpectedOrder(n) ==
    <<<<"getNextBatchMeta", 0>>>> \o ColumnOrder(0, n) \o <<<<"releaseTable", 0>>>>

IsPrefix(a, b) == Len(a) <= Len(b) /\ SubSeq(b, 1, Len(a)) = a

DecodeFailed(st) ==
    st.msg \in {"Unsupported type in java side", "Unsupported type in jni scanner"}

\* Position (from 1) of the null-bitmap slot of column k (from 1) in a block
RECURSIVE NullSlot(_)
NullSlot(k) ==
    IF k = 1 THEN 2
    ELSE NullSlot(k - 1) + 1 + DataSlots(block[_column_names[k - 1]].type)

\* C1: close() is idempotent: once a close() has returned, a later close()
\* (direct or from the destructor) issues no boundary call, is not fatal and
\* returns OK; over a run close() issues releaseTable and the scanner's close
\* at most once each.
C1_CloseIdempotent ==
    /\ [](hist.relFromClose <= 1 /\ hist.scannerCloses <= 1)
    /\ [][(hist.closeReturned /\ lastOp' \in CloseOps)
            => /\ calls' = <<>>
               /\ status' = OK
               /\ proc' \in {"running", "destroyed"}
               /\ scanner' = scanner
               /\ _jni_scanner_obj' = _jni_scanner_obj]_vars

C1_Witness ==
    /\ lastOp = "close" /\ proc = "running" /\ calls = <<>>
    /\ hist.opened /\ hist.closeReturned
    /\ hist.relFromClose = 1 /\ hist.scannerCloses = 1

\* C2: over a scanner handing out valid batches and then address 0, with no
\* fault, the rows reported by the successful calls sum to the rows the
\* scanner emitted, _has_read is that sum, every call with a batch reports
\* its rows with eof false, and the call that gets address 0 reports eof
\* true and 0 rows.
\* Under repeated calls such a run reaches the call that reports eof.
C2_Sum ==
    (hist.clean /\ lastOp = "get_nex_block")
        => /\ status = OK /\ written
           /\ hist.sumRead = hist.emitted
           /\ _has_read = hist.emitted
           /\ hist.returned = "rows" => (~eof /\ read_rows = _meta[1].v /\ read_rows > 0)
           /\ hist.returned # "rows" => (hist.returned = "zero" /\ eof /\ read_rows = 0)

C2_SumOfRowsRead ==
    /\ []C2_Sum
    /\ (hist.clean /\ hist.opened)
          ~> ((hist.clean /\ lastOp = "get_nex_block" /\ eof /\ read_rows = 0)
              \/ ~hist.clean \/ _closed \/ proc # "running")

C2_Witness ==
    /\ hist.clean /\ lastOp = "get_nex_block"
    /\ hist.returned = "zero" /\ eof /\ read_rows = 0
    /\ hist.batches = MaxBatches /\ _has_read = MaxBatches

\* C3: when getNextBatchMeta returns address 0, or a block whose row count is
\* 0, get_nex_block returns OK with eof true and 0 rows and decodes nothing:
\* no _fill_column, no slot read after the row count, no releaseColumn, the
\* block and _has_read unchanged.
C3_EndOfStream ==
    [][(lastOp' = "get_nex_block" /\ hist'.returned \in {"zero", "empty"})
         => /\ status' = OK /\ written' /\ eof' /\ read_rows' = 0
            /\ Strip(calls') = <<<<"getNextBatchMeta", 0>>>>
            /\ Len(reads') = (IF hist'.returned = "empty" THEN 1 ELSE 0)
            /\ block' = block
            /\ _has_read' = _has_read]_vars

C3_Witness ==
    /\ lastOp = "get_nex_block" /\ hist.returned = "empty"
    /\ eof /\ read_rows = 0 /\ reads = <<1>>
    /\ _has_read > 0

\* The column (from 1) whose null-bitmap pointer is zero in the block, 0 if none
ZeroColumn(meta) ==
    IF \E k \in 1..Len(_column_names) : meta[NullSlot(k)].v = 0
    THEN CHOOSE k \in 1..Len(_column_names) : meta[NullSlot(k)].v = 0
    ELSE 0

\* C4: when the null-bitmap pointer of column k of a batch with rows is zero
\* (and no boundary call raises before), get_nex_block fails with the
\* "Unsupported type ... in java side" error; the cursor stops right after
\* that slot, so no data pointer of column k and no slot of a later column is
\* read; column k of the block is unchanged and releaseColumn is not called
\* for it.
C4_ZeroNullMap ==
    [][(/\ lastOp' = "get_nex_block" /\ proc' = "running"
        /\ hist'.returned = "rows" /\ ~Raised(calls')
        /\ ZeroColumn(_meta') # 0)
         => LET k == ZeroColumn(_meta')
            IN  /\ status' = InternalError("Unsupported type in java side",
                                           block[_column_names[k]].type)
                /\ _meta_index' = NullSlot(k)
                /\ reads' = [j \in 1..NullSlot(k) |-> j]
                /\ block'[_column_names[k]] = block[_column_names[k]]
                /\ Strip(calls')[Len(Strip(calls'))] = <<"_fill_column", k - 1>>
                /\ \A j \in 1..Len(calls') :
                     ~(calls'[j].call = "releaseColumn" /\ calls'[j].arg >= k - 1)]_vars

C4_Witness ==
    /\ lastOp = "get_nex_block" /\ proc = "running"
    /\ status.msg = "Unsupported type in java side"
    /\ Len(_column_names) = 2 /\ ZeroColumn(_meta) = 2
    /\ _meta_index = NullSlot(2) /\ _meta_index < Len(_meta)
    /\ Len(block["c0"].data) = 2 /\ block["c1"].data # <<>>

\* C5: a get_nex_block that got a batch with rows issues getNextBatchMeta,
\* then for each declared column in order _fill_column(i) immediately
\* followed by releaseColumn(i), then releaseTable; a call that returns OK
\* issues all of them, and when decoding column k fails the calls end with
\* _fill_column(k): releaseColumn was called once each for 0..k-1, in order,
\* and for no later column.
C5_CallOrder ==
    (lastOp = "get_nex_block" /\ hist.returned = "rows")
        => LET t == Strip(calls)
               n == Len(_column_names)
           IN  /\ IsPrefix(t, ExpectedOrder(n))
               /\ (proc = "running" /\ status = OK) => t = ExpectedOrder(n)
               /\ (proc = "running" /\ DecodeFailed(status))
                    => /\ t[Len(t)][1] = "_fill_column"
                       /\ Len(t) = 2 + 2 * t[Len(t)][2]

C5_Witness ==
    /\ lastOp = "get_nex_block" /\ proc = "running" /\ hist.returned = "rows"
    /\ DecodeFailed(status)
    /\ Strip(calls) = <<<<"getNextBatchMeta", 0>>, <<"_fill_column", 0>>,
                        <<"releaseColumn", 0>>, <<"_fill_column", 1>>>>

\* C6: a get_nex_block in which decoding a column fails returns the error
\* without issuing releaseTable and without adding to _has_read; the close()
\* of the opened connector that follows issues releaseTable and then the
\* scanner's close, so the batch is released at table level exactly once.
C6_FailedBatchReleasedByClose ==
    [][/\ (lastOp' = "get_nex_block" /\ proc' = "running" /\ DecodeFailed(status'))
            => /\ Count(calls', "releaseTable") = 0
               /\ _has_read' = _has_read
               /\ scanner'.held /\ scanner'.relTable = 0
       /\ (/\ lastOp = "get_nex_block" /\ DecodeFailed(status) /\ Opened
           /\ lastOp' \in CloseOps /\ ~Raised(calls'))
            => /\ SubSeq(Strip(calls'), 1, 2) = <<<<"releaseTable", 0>>, <<"close", 0>>>>
               /\ Count(calls', "releaseTable") = 1
               /\ ~scanner'.held /\ scanner'.relTable = 1
               /\ scanner'.closed = scanner.closed + 1]_vars

C6_Witness ==
    /\ lastOp = "close" /\ proc = "running" /\ hist.faults = 0 /\ hist.opens = 1
    /\ hist.returned = "rows"
    /\ Len(scanner.relCols) < Len(_column_names)
    /\ ~scanner.held /\ scanner.relTable = 1 /\ scanner.closed = 1

\* An exception is pending, unchecked, when event k of the trace is issued
PendingAt(tr, k) ==
    \E j \in 1..(k - 1) :
        /\ tr[j].raises
        /\ \A m \in (j + 1)..(k - 1) : ~IsCheck(tr[m])

\* DeleteLocalRef cannot raise and may be called with an exception pending
NeedsCheck(e) == e.kind = "jni" /\ e.call # "DeleteLocalRef"

\* C7: in open, get_nex_block and close every boundary call is followed by an
\* exception check before the next boundary call, and no boundary call is
\* issued while an exception of an earlier call is unchecked.
C7_CheckAfterEveryCall ==
    \A k \in 1..Len(calls) :
        NeedsCheck(calls[k])
            => /\ ~PendingAt(calls, k)
               /\ \/ proc = "crashed" /\ k = Len(calls)
                  \/ \E c \in (k + 1)..Len(calls) :
                        /\ IsCheck(calls[c])
                        /\ \A m \in (k + 1)..(c - 1) : ~NeedsCheck(calls[m])

\* C8: an exception raised during close() (direct or from the destructor)
\* terminates the process (LOG(FATAL), or the process dies at a later call of
\* the same close() through an invalid handle) and is never returned; a
\* close() that returns returns OK.  An exception raised during open or
\* get_nex_block is returned as an error Status and the process goes on, with
\* no exception left pending.
C8_FailureAsymmetry ==
    /\ (lastOp \in CloseOps /\ Raised(calls))
         => (proc \in {"fatal", "crashed"} /\ status = None)
    /\ (lastOp \in CloseOps /\ proc \in {"running", "destroyed"}) => status = OK
    /\ (lastOp \in {"open", "get_nex_block"} /\ Raised(calls))
         => (proc = "running" /\ status = JniExceptionStatus /\ ~exc)
    /\ proc = "fatal" => (lastOp \in CloseOps /\ Raised(calls))

C8_Witness ==
    /\ lastOp = "close" /\ proc = "fatal" /\ hist.opened
    /\ calls[1].raises /\ calls[2].call = "close"

\* C9: once a close() that released the scanner handle has returned, no
\* operation issues a boundary call through
\* the deleted scanner handle, and the connector never holds a valid scanner
\* handle while it is marked closed.
C9_NoUseAfterClose ==
    hist.handleReleased
        => /\ \A k \in 1..Len(calls) : calls[k].via # "deleted"
           /\ ~(_closed /\ _jni_scanner_obj = "valid")

RECURSIVE Join(_, _)
Join(strs, sep) ==
    IF strs = <<>> THEN ""
    ELSE IF Len(strs) = 1 THEN strs[1]
    ELSE strs[1] \o sep \o Join(Tail(strs), sep)

\* C10: get_hive_type of a struct is struct< then name:type of each field
\* joined by single commas, none trailing, then >; of an array array<elem>;
\* of a map map<key,value>, each child string being get_hive_type of the
\* child; array of map(string,int) gives array<map<string,int>> and
\* decimal32 of precision 5, scale 2 gives decimal32(5,2); a descriptor of
\* an unrecognised type gives unsupported.
C10_HiveTypeOfComposites ==
    lastOp = "get_hive_type"
        => /\ desc.type = "TYPE_STRUCT"
                => hive_type = "struct<"
                     \o Join([i \in 1..Len(desc.children) |->
                                desc.field_names[i] \o ":"
                                    \o get_hive_type(desc.children[i])], ",")
                     \o ">"
           /\ desc.type = "TYPE_ARRAY"
                => hive_type = "array<" \o get_hive_type(desc.children[1]) \o ">"
           /\ desc.type = "TYPE_MAP"
                => hive_type = "map<" \o get_hive_type(desc.children[1]) \o ","
                                 \o get_hive_type(desc.children[2]) \o ">"
           /\ desc = ArrayOfMapStringInt => hive_type = "array<map<string,int>>"
           /\ desc = Decimal("TYPE_DECIMAL32", 5, 2) => hive_type = "decimal32(5,2)"
           /\ desc = StructOf(<<Scalar("TYPE_INT"), ArrayOfMapStringInt>>)
                => hive_type = "struct<a:int,b:array<map<string,int>>>"
           /\ desc.type \in UnrecognizedTypes => hive_type = "unsupported"
           /\ desc.type \notin UnrecognizedTypes => hive_type # "unsupported"

C10_Witness ==
    /\ lastOp = "get_hive_type"
    /\ desc = StructOf(<<Scalar("TYPE_INT"), ArrayOfMapStringInt>>)
    /\ hive_type = "struct<a:int,b:array<map<string,int>>>"

\* Slots of one column: null-bitmap pointer, then its data pointer(s)
SlotsOfType(t) == IF t \in StringTypes THEN 3 ELSE 2

RECURSIVE SlotsUpTo(_)
SlotsUpTo(k) ==
    IF k = 0 THEN 1 ELSE SlotsUpTo(k - 1) + SlotsOfType(block[_column_names[k]].type)

\* C11: a get_nex_block that decodes its batch reads exactly 1 + the sum over
\* the declared columns of 3 slots for a string column and 2 for any other
\* one, in position order from the row count on, the null-bitmap slot also
\* for a column that is not nullable; no call reads a slot beyond that count
\* or beyond the block.
C11_SlotsRead ==
    (lastOp = "get_nex_block" /\ proc = "running")
        => /\ reads = [k \in 1..Len(reads) |-> k]
           /\ Len(reads) <= SlotsUpTo(Len(_column_names))
           /\ Len(reads) <= Len(_meta)
           /\ (hist.returned = "rows" /\ Count(calls, "releaseTable") = 1)
                => /\ Len(reads) = SlotsUpTo(Len(_column_names))
                   /\ _meta_index = Len(reads)
                   /\ Len(reads) = Len(_meta)

C11_Witness ==
    /\ lastOp = "get_nex_block" /\ proc = "running" /\ status = OK
    /\ hist.returned = "rows"
    /\ block["c0"].type = "Int32" /\ ~block["c1"].nullable
    /\ Len(reads) = 6

\* The columns (from 1) a get_nex_block decoded: those it released
DecodedColumns(tr) ==
    { k \in 1..Len(_column_names) :
        \E j \in 1..Len(tr) : tr[j].call = "releaseColumn" /\ tr[j].arg = k - 1 }

\* C12: a successful _fill_column only appends: the column holds its previous
\* contents followed by exactly num_rows new entries, the null map of a
\* nullable column its previous bytes followed by the num_rows bitmap bytes
\* of the batch, copied as they are; after a get_nex_block that returns OK
\* every declared column has grown by num_rows.
C12_AppendOnly ==
    [][(lastOp' = "get_nex_block" /\ proc' = "running" /\ hist'.returned = "rows")
         => LET n == _meta'[1].v
            IN  /\ \A k \in DecodedColumns(calls') :
                     LET old == block[_column_names[k]]
                         new == block'[_column_names[k]]
                     IN  /\ Len(new.data) = Len(old.data) + n
                         /\ SubSeq(new.data, 1, Len(old.data)) = old.data
                         /\ new.null_map =
                              (IF old.nullable
                               THEN old.null_map
                                      \o SubSeq(_meta'[NullSlot(k)].mem, 1, n)
                               ELSE old.null_map)
                /\ status' = OK => DecodedColumns(calls') = 1..Len(_column_names)]_vars

C12_Witness ==
    /\ lastOp = "get_nex_block" /\ proc = "running" /\ status = OK
    /\ hist.returned = "rows"
    /\ block["c0"].type = "Int32"
    /\ block["c0"].null_map = <<1, 0>>
    /\ Len(block["c0"].data) = 2 /\ Len(block["c1"].data) = 2

RECURSIVE Concat(_)
Concat(rows) == IF rows = <<>> THEN <<>> ELSE Head(rows) \o Concat(Tail(rows))

\* C13: decoding a string column of num_rows rows from cumulative end
\* offsets and a byte buffer appends exactly num_rows strings; row i is the
\* bytes [offsets[i-1], offsets[i]) of the buffer with the offset before the
\* first row taken as 0, a row that starts at its end offset is the empty
\* string, and the rows concatenated are the first offsets[num_rows-1] bytes
\* of the buffer; offsets 3,3,7 over abcxyz1 give abc, the empty string, xyz1.
C13_StringDecode ==
    [][lastOp' = "_fill_string_column"
         => LET offsets == _meta'[1].mem
                data == _meta'[2].mem
                n == Len(offsets)
                old == block[_column_names[1]].data
                new == block'[_column_names[1]].data
                rows == SubSeq(new, Len(old) + 1, Len(new))
                from(i) == IF i = 1 THEN 0 ELSE offsets[i - 1]
            IN  /\ Len(new) = Len(old) + n
                /\ SubSeq(new, 1, Len(old)) = old
                /\ \A i \in 1..n :
                     /\ Len(rows[i]) = offsets[i] - from(i)
                     /\ \A b \in 1..Len(rows[i]) : rows[i][b] = data[from(i) + b]
                     /\ from(i) = offsets[i] => rows[i] = <<>>
                /\ Concat(rows) = SubSeq(data, 1, offsets[n])
                /\ offsets = <<3, 3, 7>>
                     => rows = << <<"a", "b", "c">>, <<>>, <<"x", "y", "z", "1">> >>
                /\ status' = OK /\ _meta_index' = 2]_vars

C13_Witness ==
    /\ lastOp = "_fill_string_column"
    /\ _meta[1].mem = <<3, 3, 7>>
    /\ block[_column_names[1]].data = << <<"a", "b", "c">>, <<>>, <<"x", "y", "z", "1">> >>

SupportedTypes == NumericTypes \cup DecimalTypes \cup TimeTypes \cup StringTypes

\* The first declared column (from 1) of an unsupported logical type, 0 if none
UnsupportedColumn ==
    IF \E k \in 1..Len(_column_names) : block[_column_names[k]].type \notin SupportedTypes
    THEN CHOOSE k \in 1..Len(_column_names) :
            /\ block[_column_names[k]].type \notin SupportedTypes
            /\ \A j \in 1..(k - 1) : block[_column_names[j]].type \in SupportedTypes
    ELSE 0

\* C14: _fill_column on a column whose logical type is outside the supported
\* set, with a non-zero null-bitmap pointer, fails with the InvalidArgument
\* error "Unsupported type ... in jni scanner" naming the type, which differs
\* from the error of a zero null-bitmap pointer; the null-bitmap slot is the
\* last slot read, no data pointer of the column is.
C14_UnsupportedType ==
    [][(/\ lastOp' = "get_nex_block" /\ proc' = "running"
        /\ hist'.returned = "rows" /\ ~Raised(calls')
        /\ UnsupportedColumn # 0
        /\ ZeroColumn(_meta') \notin 1..UnsupportedColumn)
         => LET k == UnsupportedColumn
                t == block[_column_names[k]].type
            IN  /\ status' = InvalidArgument("Unsupported type in jni scanner", t)
                /\ status' # UnsupportedInJava(block[_column_names[k]], 0).st
                /\ status'.code # UnsupportedInJava(block[_column_names[k]], 0).st.code
                /\ _meta_index' = NullSlot(k)
                /\ reads' = [j \in 1..NullSlot(k) |-> j]
                /\ block'[_column_names[k]].data = block[_column_names[k]].data]_vars

C14_Witness ==
    /\ lastOp = "get_nex_block" /\ proc = "running"
    /\ status = InvalidArgument("Unsupported type in jni scanner", "Array")
    /\ _meta_index = 5 /\ Len(reads) = 5 /\ Len(_meta) > 5
    /\ block["c0"].data # <<>> /\ block["c1"].data = <<>>

\* The values under the key push_down_predicates in a configuration map
PushDown(params) == { e.value : e \in { x \in params : x.key = "push_down_predicates" } }
OtherParams(params) == { x \in params : x.key # "push_down_predicates" }

\* C15: init returns OK; given an absent or an empty mapping it leaves the
\* configuration map and the buffer as they are; the map has the key
\* push_down_predicates exactly when a non-empty buffer has been built, its
\* value the decimal string of the buffer's address, the other entries being
\* kept; an open that constructs the scanner hands it the map as init left it.
C15_InitStagesPredicates ==
    [][/\ lastOp' = "init"
            => /\ status' = OK
               /\ (~hist'.initArg.present \/ hist'.initArg.ranges = <<>>)
                    => /\ _scanner_params' = _scanner_params
                       /\ _predicates' = _predicates
                       /\ _predicates_length' = _predicates_length
               /\ _predicates_length' = 0
                    => (_scanner_params' = _scanner_params /\ PushDown(_scanner_params') = {})
               /\ _predicates_length' # 0
                    => PushDown(_scanner_params') = {ToDecimal(_predicates')}
               /\ OtherParams(_scanner_params') = OtherParams(_scanner_params)
       /\ (lastOp' = "open" /\ _jni_scanner_obj' = "valid"
               /\ Count(calls', "NewObject") = 2)
            => /\ hist'.ctorParams = _scanner_params
               /\ PushDown(hist'.ctorParams)
                    = (IF _predicates_length # 0 THEN {ToDecimal(_predicates)} ELSE {})]_vars

C15_Witness ==
    /\ lastOp = "open" /\ status = OK
    /\ _predicates_length = 8 /\ _predicates = PredicatesAddress
    /\ PushDown(hist.ctorParams) = {"4096"}
    /\ Cardinality(hist.ctorParams) = 2

\* C16: close() (direct or from the destructor) issues boundary calls only
\* through an environment, a scanner handle and method identifiers that
\* open() obtained: on a connector never opened, or whose open() failed
\* before they were obtained, it makes no boundary call through an unset one.
C16_CloseOnlyThroughOpenedHandle ==
    lastOp \in CloseOps => \A k \in 1..Len(calls) : calls[k].via = "valid"

\* C17: the null map of a nullable column is as long as its nested column
\* after every return of _fill_column, the error returns included.
C17_NullMapAsLongAsColumn ==
    \A c \in DOMAIN block :
        block[c].nullable => Len(block[c].null_map) = Len(block[c].data)

\* C18: a get_nex_block that returns an error has not written *read_rows and
\* *eof and has not added to _has_read; *read_rows is non-zero only after a
\* call that returned OK.
C18_ErrorLeavesOutputs ==
    (lastOp = "get_nex_block" /\ proc = "running" /\ status # OK)
        => /\ ~written
           /\ read_rows = 0
           /\ _has_read = hist.sumRead

\* C19: no batch is leaked at teardown: whatever get_nex_block calls came
\* before, the close() of an opened connector (in which no call raises)
\* issues releaseTable, so after the last getNextBatchMeta, then the
\* scanner's close, and after it only deletes local references: the scanner
\* holds no batch and close was the last call made on the handle.
C19_NoBatchLeaked ==
    [][(Opened /\ lastOp' \in CloseOps /\ ~Raised(calls'))
         => LET t == Strip(calls')
            IN  /\ proc' \in {"running", "destroyed"}
                /\ Len(t) >= 2
                /\ t[1] = <<"releaseTable", 0>>
                /\ t[2] = <<"close", 0>>
                /\ \A k \in 3..Len(t) : t[k][1] = "DeleteLocalRef"
                /\ \A k \in 1..Len(calls') : calls'[k].via = "valid"
                /\ ~scanner'.held
                /\ scanner'.relTable = (IF scanner.held THEN 1 ELSE scanner.relTable + 1)
                /\ scanner'.closed = scanner.closed + 1
                /\ _jni_scanner_obj' = "deleted" /\ _closed']_vars

C19_Witness ==
    /\ lastOp = "close" /\ proc = "running" /\ hist.opened
    /\ hist.returned = "empty" /\ hist.batches = 2 /\ _has_read > 0
    /\ ~scanner.held /\ scanner.relTable = 1 /\ scanner.closed = 1

====
